---- MODULE Spec2Model ----
(***************************************************************************)
(* Model of the go-buffer concurrency core (src/buffer.go) driving the     *)
(* synchronous ArrayContainer (package container), of the constructor      *)
(* NewBuffer with Config.Validate, and of the asynchronous ArrayContainer  *)
(* driven on its own, as its unit test drives it.                          *)
(*                                                                         *)
(* Goroutines: the run loop, the cleanup goroutine, the flush goroutines   *)
(* spawned under the asynchronous auto-flush policy, and the caller        *)
(* goroutines that use Put / Flush / Close.  Every step of a goroutine     *)
(* that touches shared state is one action; the Go select statement picks  *)
(* any ready case.                                                         *)
(***************************************************************************)
EXTENDS Integers, Sequences, FiniteSets, TLC

\* ---------------------------------------------------------------- bounds
NCallers == 2        \* caller goroutines
MaxCalls == 3        \* calls of the façade and cancellations of the parent context
ChanBufSize == 2     \* Config.ChanBufSize: capacity of dataChan
FlushSize == 2       \* ArrayContainer.flushSize
MaxG == 1            \* flush goroutines alive at the same time
MaxFails == 1        \* calls of flushBatch that return an error
MaxZeros == 1       \* zero values run receives from the closed dataChan
MaxFailsUnread == 2 \* Container errors when the application never reads errChan
LevelSpan == 2      \* LogLevel inputs reach this far beyond the accepted range
MaxChanBufInput == 2 \* largest Config.ChanBufSize given to NewBuffer
MaxIntervalInput == 1 \* largest Config.FlushInterval (seconds) given to NewBuffer
MaxPutsA == 4       \* Put calls on the asynchronous ArrayContainer
MaxPendA == 2       \* its flush goroutines that have not run yet
MaxFailsA == 1      \* errors its flushBatch may return
MaxGFill == 2       \* flush goroutines alive at the same time when only Put is called

Callers == 1..NCallers
Gs == {"g" \o ToString(i) : i \in 1..MaxG}
Loops == {"run", "cleanup"}
Threads == Loops \cup Gs

\* the zero value of T, received from a closed dataChan
ZeroItem == 0
\* the nil *flushSignal, received from a closed flushSignalChan
NilSignal == [caller |-> 0, async |-> FALSE]

VARIABLES
    SyncAutoFlush,     \* Config.SyncAutoFlush
    DisableAutoFlush,  \* Config.DisableAutoFlush
    ctxDone,           \* buffer.context is cancelled
    dataChan,          \* buffered channel of items
    chansClosed,       \* dataChan and flushSignalChan are closed
    errChan,           \* buffered channel (capacity 1) of errors
    errClosed,         \* errChan is closed
    tickerOn,          \* the ticker is running
    array,             \* ArrayContainer.array
    sink,              \* the non-empty batches flushBatch accepted, in call order
    failsLeft,         \* errors flushBatch may still return
    pc,                \* position of run, cleanup and the flush goroutines
    cur,               \* item a loop goroutine received and is putting
    tmp,               \* slice header read by an append in progress
    fctx,              \* why a goroutine is executing Container.Flush
    req,               \* flushSignal the run loop is serving
    cpc,               \* position of each caller
    calls,             \* façade calls and parent cancellations so far
    res,               \* result of each caller's last completed call
    nEnq,              \* items enqueued so far; item k is the k-th enqueued
    nAtCancel,         \* nEnq when the context was cancelled, -1 before
    putLog,            \* <<item, goroutine>> in order of Container.Put calls
    snap,              \* ArrayContainer.array when run took the request it serves
    sinkWhy,           \* for each batch in sink, the call site of its Container.Flush
    putErrs,           \* items whose Container.Put returned an error
    nCloseNil,         \* Close calls that returned nil
    panicked,          \* the process died of a runtime panic
    config,            \* the Config handed to NewBuffer
    newRes,            \* what NewBuffer returned
    arrayA,            \* asynchronous ArrayContainer: array (its len(array) cells)
    capA,              \* cap(array); the cells beyond len(array) hold zero values
    pcA,               \* position of the goroutine calling its methods
    pendA,             \* flush goroutines spawned that have not run yet
    outA,              \* the slices its flushBatch received, in call order
    snapA,             \* array at each call of its Flush
    failsA,            \* errors its flushBatch may still return
    crashA,            \* the panic that ended the process, "none" before
    nPutA              \* Put calls made on it

cfgVars == <<SyncAutoFlush, DisableAutoFlush>>
ctxVars == <<ctxDone, nAtCancel>>
chanVars == <<dataChan, chansClosed, nEnq>>
errVars == <<errChan, errClosed>>
tickVars == <<tickerOn>>
contVars == <<array, sink, failsLeft>>
loopVars == <<pc, cur, tmp, fctx, req>>
callVars == <<cpc, calls, res, nCloseNil>>
histVars == <<putLog, snap, sinkWhy, putErrs>>
newVars == <<config, newRes>>
asyncVars == <<arrayA, capA, pcA, pendA, outA, snapA, failsA, crashA, nPutA>>
vars == <<cfgVars, ctxVars, chanVars, errVars, tickVars, contVars, loopVars,
          callVars, histVars, panicked, newVars, asyncVars>>

\* ----------------------------------------------------------------- Config
\* zap.DebugLevel and zap.FatalLevel, the ends of the accepted LogLevel range
DebugLevel == -1
FatalLevel == 5
\* the defaults Validate sets (FlushInterval in seconds)
DefaultChanBufSize == 100
DefaultFlushInterval == 15

\* the Configs given to NewBuffer; Logger is nil or the application's logger
ConfigInputs ==
    [ID : {"", "id"},
     ChanBufSize : 0..MaxChanBufInput,
     DisableAutoFlush : BOOLEAN,
     FlushInterval : 0..MaxIntervalInput,
     SyncAutoFlush : BOOLEAN,
     Logger : {"nil", "logger"},
     LogLevel : (DebugLevel - LevelSpan)..(FatalLevel + LevelSpan)]

\* mutant of Validate: the LogLevel is not checked
ValidateAnyLevel(c) ==
    [Config |-> [c EXCEPT !.Logger = IF c.Logger = "nil" THEN "zapr" ELSE c.Logger],
     err |-> "nil"]

\* Config.Validate: the Config with its defaults set, and the error returned
Validate(c) ==
    LET c1 == IF c.ID = "" THEN [c EXCEPT !.ID = "uuid"] ELSE c
        c2 == IF c1.ChanBufSize = 0
              THEN [c1 EXCEPT !.ChanBufSize = DefaultChanBufSize] ELSE c1
        c3 == IF c2.FlushInterval = 0
              THEN [c2 EXCEPT !.FlushInterval = DefaultFlushInterval] ELSE c2
    IN  IF c3.Logger # "nil"
        THEN [Config |-> c3, err |-> "nil"]
        ELSE IF c3.LogLevel >= DebugLevel /\ c3.LogLevel <= FatalLevel
             THEN [Config |-> [c3 EXCEPT !.Logger = "zapr"], err |-> "nil"]
             ELSE [Config |-> c3, err |-> "invalid config.logLevel"]

\* the results of NewBuffer before it is called
NoResult(c) ==
    [called |-> FALSE, buffer |-> "nil", Config |-> c, errChan |-> "nil",
     err |-> "nil"]

\* NewBuffer's named results buffer, errChan and err.  The channel is made
\* for the field Buffer.errChan only; the result errChan is never assigned
\* and is returned as it was declared, nil.
NewBuffer(c) ==
    LET v == Validate(c)
    IN  IF v.err # "nil"
        THEN [called |-> TRUE, buffer |-> "nil", Config |-> c, errChan |-> "nil",
              err |-> v.err]
        ELSE [called |-> TRUE, buffer |-> "live", Config |-> v.Config,
              errChan |-> "nil", err |-> "nil"]

\* the Config of the buffer whose run is modelled below
RunConfig(sync, disable) ==
    [ID |-> "id", ChanBufSize |-> ChanBufSize, DisableAutoFlush |-> disable,
     FlushInterval |-> 1, SyncAutoFlush |-> sync, Logger |-> "nil",
     LogLevel |-> 0]

\* NewArrayContainer(FlushSize, true, flushBatch), not used yet
NewArrayContainer ==
    /\ arrayA = <<>>
    /\ capA = FlushSize
    /\ pcA = "idle"
    /\ pendA = 0
    /\ outA = <<>>
    /\ snapA = <<>>
    /\ failsA = MaxFailsA
    /\ crashA = "none"
    /\ nPutA = 0

\* ------------------------------------------------------------ constructor
\* NewBuffer returned; run has created its ticker (stopped at once when
\* DisableAutoFlush) and waits in its select, cleanup waits for Done().
Init ==
    /\ SyncAutoFlush \in BOOLEAN
    /\ DisableAutoFlush \in BOOLEAN
    /\ ctxDone = FALSE
    /\ dataChan = <<>>
    /\ chansClosed = FALSE
    /\ errChan = <<>>
    /\ errClosed = FALSE
    /\ tickerOn = ~DisableAutoFlush
    /\ array = <<>>
    /\ sink = <<>>
    /\ failsLeft = MaxFails
    /\ pc = [t \in Threads |->
                IF t = "run" THEN "select" ELSE IF t = "cleanup" THEN "wait" ELSE "idle"]
    /\ cur = [t \in Loops |-> ZeroItem]
    /\ tmp = [t \in Loops |-> <<>>]
    /\ fctx = [t \in Threads |-> "none"]
    /\ req = NilSignal
    /\ cpc = [c \in Callers |-> "idle"]
    /\ calls = 0
    /\ res = [c \in Callers |-> "none"]
    /\ nEnq = 0
    /\ nAtCancel = -1
    /\ putLog = <<>>
    /\ snap = <<>>
    /\ sinkWhy = <<>>
    /\ putErrs = {}
    /\ nCloseNil = 0
    /\ panicked = FALSE
    /\ config = RunConfig(SyncAutoFlush, DisableAutoFlush)
    /\ newRes = NewBuffer(config)
    /\ NewArrayContainer

\* The same constructor for a Container whose Put may fail too (the Container
\* interface returns an error from Put and from Flush), used by an
\* application that never reads the error channel.
InitUnread ==
    /\ SyncAutoFlush \in BOOLEAN
    /\ DisableAutoFlush \in BOOLEAN
    /\ ctxDone = FALSE
    /\ dataChan = <<>>
    /\ chansClosed = FALSE
    /\ errChan = <<>>
    /\ errClosed = FALSE
    /\ tickerOn = ~DisableAutoFlush
    /\ array = <<>>
    /\ sink = <<>>
    /\ failsLeft = MaxFailsUnread
    /\ pc = [t \in Threads |->
                IF t = "run" THEN "select" ELSE IF t = "cleanup" THEN "wait" ELSE "idle"]
    /\ cur = [t \in Loops |-> ZeroItem]
    /\ tmp = [t \in Loops |-> <<>>]
    /\ fctx = [t \in Threads |-> "none"]
    /\ req = NilSignal
    /\ cpc = [c \in Callers |-> "idle"]
    /\ calls = 0
    /\ res = [c \in Callers |-> "none"]
    /\ nEnq = 0
    /\ nAtCancel = -1
    /\ putLog = <<>>
    /\ snap = <<>>
    /\ sinkWhy = <<>>
    /\ putErrs = {}
    /\ nCloseNil = 0
    /\ panicked = FALSE
    /\ config = RunConfig(SyncAutoFlush, DisableAutoFlush)
    /\ newRes = NewBuffer(config)
    /\ NewArrayContainer

\* ----------------------------------------------------------------- façade
\* mutant of closed: polls the data channel's state instead of the context
closedWhenChansClosed == chansClosed

\* Buffer.closed: a non-blocking poll of context.Done()
closed == ctxDone

\* mutant of cancel: flips the closed state instead of setting it
cancelFlips ==
    /\ ctxDone' = ~ctxDone
    /\ nAtCancel' = IF ctxDone THEN nAtCancel ELSE nEnq

\* context.CancelFunc: the first call closes Done(), later calls do nothing
cancel ==
    /\ ctxDone' = TRUE
    /\ nAtCancel' = IF ctxDone THEN nAtCancel ELSE nEnq

\* a call that finds the buffer closed returns ErrClosed at once
ReturnErrClosed(c) ==
    /\ res' = [res EXCEPT ![c] = "ErrClosed"]
    /\ UNCHANGED cpc

\* callers are interchangeable: caller c issues its first call after caller
\* c - 1 has issued one
Started(c) == IF c = 0 THEN TRUE ELSE cpc[c] # "idle" \/ res[c] # "none"
CanCall(c) ==
    /\ ~panicked
    /\ cpc[c] = "idle"
    /\ calls < MaxCalls
    /\ Started(c - 1)

\* Buffer.Put up to the channel send
PutCall(c) ==
    /\ CanCall(c)
    /\ calls' = calls + 1
    /\ IF closed
          THEN ReturnErrClosed(c)
          ELSE /\ cpc' = [cpc EXCEPT ![c] = "put_send"]
               /\ res' = [res EXCEPT ![c] = "none"]
    /\ UNCHANGED <<newVars, asyncVars, cfgVars, ctxVars, chanVars, errVars, tickVars, contVars,
                   loopVars, nCloseNil, histVars, panicked>>

\* mutant of PutSend: the channel takes one item more than its capacity
PutSendOver(c) ==
    /\ ~panicked
    /\ cpc[c] = "put_send"
    /\ ~chansClosed
    /\ Len(dataChan) <= ChanBufSize
    /\ dataChan' = Append(dataChan, nEnq + 1)
    /\ nEnq' = nEnq + 1
    /\ cpc' = [cpc EXCEPT ![c] = "idle"]
    /\ res' = [res EXCEPT ![c] = "nil"]
    /\ UNCHANGED <<newVars, asyncVars, cfgVars, ctxVars, chansClosed, errVars, tickVars, contVars,
                   loopVars, calls, nCloseNil, histVars, panicked>>

\* buffer.dataChan <- data; return nil
PutSend(c) ==
    /\ ~panicked
    /\ cpc[c] = "put_send"
    /\ ~chansClosed
    /\ Len(dataChan) < ChanBufSize
    /\ dataChan' = Append(dataChan, nEnq + 1)
    /\ nEnq' = nEnq + 1
    /\ cpc' = [cpc EXCEPT ![c] = "idle"]
    /\ res' = [res EXCEPT ![c] = "nil"]
    /\ UNCHANGED <<newVars, asyncVars, cfgVars, ctxVars, chansClosed, errVars, tickVars, contVars,
                   loopVars, calls, nCloseNil, histVars, panicked>>

\* Buffer.Flush up to the send of the flushSignal
FlushCall(c, async) ==
    /\ CanCall(c)
    /\ calls' = calls + 1
    /\ IF closed
          THEN ReturnErrClosed(c)
          ELSE /\ cpc' = [cpc EXCEPT ![c] =
                             IF async THEN "flush_send_async" ELSE "flush_send_sync"]
               /\ res' = [res EXCEPT ![c] = "none"]
    /\ UNCHANGED <<newVars, asyncVars, cfgVars, ctxVars, chanVars, errVars, tickVars, contVars,
                   loopVars, nCloseNil, histVars, panicked>>

\* Buffer.Close up to the call of cancel
CloseCall(c) ==
    /\ CanCall(c)
    /\ calls' = calls + 1
    /\ IF closed
          THEN ReturnErrClosed(c)
          ELSE /\ cpc' = [cpc EXCEPT ![c] = "close_cancel"]
               /\ res' = [res EXCEPT ![c] = "none"]
    /\ UNCHANGED <<newVars, asyncVars, cfgVars, ctxVars, chanVars, errVars, tickVars, contVars,
                   loopVars, nCloseNil, histVars, panicked>>

\* mutant of CloseCancel: Close returns only once cleanup has finished
CloseCancelWaits(c) ==
    /\ ~panicked
    /\ cpc[c] = "close_cancel"
    /\ pc["cleanup"] = "done"
    /\ cancel
    /\ cpc' = [cpc EXCEPT ![c] = "idle"]
    /\ res' = [res EXCEPT ![c] = "nil"]
    /\ nCloseNil' = nCloseNil + 1
    /\ UNCHANGED <<newVars, asyncVars, cfgVars, chanVars, errVars, tickVars, contVars,
                   loopVars, calls, histVars, panicked>>

\* buffer.cancel(); return nil
CloseCancel(c) ==
    /\ ~panicked
    /\ cpc[c] = "close_cancel"
    /\ cancel
    /\ cpc' = [cpc EXCEPT ![c] = "idle"]
    /\ res' = [res EXCEPT ![c] = "nil"]
    /\ nCloseNil' = nCloseNil + 1
    /\ UNCHANGED <<newVars, asyncVars, cfgVars, chanVars, errVars, tickVars, contVars,
                   loopVars, calls, histVars, panicked>>

\* the context given to NewBuffer is cancelled by its owner: the buffer's
\* context, derived from it, is cancelled with it
ParentCancel ==
    /\ ~panicked
    /\ ~ctxDone
    /\ calls < MaxCalls
    /\ calls' = calls + 1
    /\ cancel
    /\ UNCHANGED <<newVars, asyncVars, cfgVars, chanVars, errVars, tickVars, contVars, loopVars,
                   cpc, res, nCloseNil, histVars, panicked>>

\* a send on a channel that cleanup has closed panics
SendOnClosed(c) ==
    /\ ~panicked
    /\ cpc[c] \in {"put_send", "flush_send_sync", "flush_send_async"}
    /\ chansClosed
    /\ panicked' = TRUE
    /\ UNCHANGED <<newVars, asyncVars, cfgVars, ctxVars, chanVars, errVars, tickVars, contVars,
                   loopVars, callVars, histVars>>

\* --------------------------------------------------------- ArrayContainer
\* mutant of IsFull: full only beyond the flush size
IsFullOver == Len(array) > FlushSize

\* ArrayContainer.IsFull
IsFull == Len(array) >= FlushSize

\* where a loop goroutine waits for its next event
Back(t) == IF t = "run" THEN "select" ELSE "drain"

\* a flush goroutine slot that is not in use
FreeG == {g \in DOMAIN pc \ Loops : pc[g] = "idle"}
PickG == CHOOSE g \in FreeG : TRUE

\* what follows Container.Flush (and the error handling) at each call site:
\* the timer and capacity sites restart the ticker and go back to the loop,
\* the manual site goes on to the done signal, cleanup goes on to close the
\* channels, a spawned goroutine ends.
After(t) ==
    CASE fctx[t] \in {"tick", "cap"} ->
            /\ pc' = [pc EXCEPT ![t] = Back(t)]
            /\ tickerOn' = TRUE
      [] fctx[t] = "man" ->
            /\ pc' = [pc EXCEPT ![t] = "mdone"]
            /\ UNCHANGED tickerOn
      [] fctx[t] = "final" ->
            /\ pc' = [pc EXCEPT ![t] = "close"]
            /\ UNCHANGED tickerOn
      [] OTHER ->
            /\ pc' = [pc EXCEPT ![t] = "idle"]
            /\ UNCHANGED tickerOn

\* ArrayContainer.Flush, synchronous branch: flushBatch(container.array)
\* returned nil
FlushBatchOk(t) ==
    /\ ~panicked
    /\ pc[t] = "fl_call"
    /\ sink' = IF array = <<>> THEN sink ELSE Append(sink, array)
    /\ sinkWhy' = IF array = <<>> THEN sinkWhy ELSE Append(sinkWhy, fctx[t])
    /\ pc' = [pc EXCEPT ![t] = "fl_trunc"]
    /\ UNCHANGED <<newVars, asyncVars, cfgVars, ctxVars, chanVars, errVars, tickVars, array, failsLeft,
                   cur, tmp, fctx, req, callVars, putLog, snap, putErrs, panicked>>

\* flushBatch returned an error: Flush returns it. cleanup only logs it,
\* every other call site goes on to report it.
FlushBatchFail(t) ==
    /\ ~panicked
    /\ pc[t] = "fl_call"
    /\ failsLeft > 0
    /\ failsLeft' = failsLeft - 1
    /\ pc' = [pc EXCEPT ![t] = IF fctx[t] = "final" THEN "close" ELSE "fl_err"]
    /\ UNCHANGED <<newVars, asyncVars, cfgVars, ctxVars, chanVars, errVars, tickVars, array, sink,
                   cur, tmp, fctx, req, callVars, histVars, panicked>>

\* mutant of FlushTrunc: the slice is cut after its first element instead of
\* before it
FlushTruncKeepsOne(t) ==
    /\ ~panicked
    /\ pc[t] = "fl_trunc"
    /\ array' = IF array = <<>> THEN <<>> ELSE <<Head(array)>>
    /\ After(t)
    /\ UNCHANGED <<newVars, asyncVars, cfgVars, ctxVars, chanVars, errVars, sink,
                   failsLeft, cur, tmp, fctx, req, callVars, histVars, panicked>>

\* container.array = container.array[:0]; return nil
FlushTrunc(t) ==
    /\ ~panicked
    /\ pc[t] = "fl_trunc"
    /\ array' = <<>>
    /\ After(t)
    /\ UNCHANGED <<newVars, asyncVars, cfgVars, ctxVars, chanVars, errVars, sink,
                   failsLeft, cur, tmp, fctx, req, callVars, histVars, panicked>>

\* buffer.errChan <- err: blocks while the slot is taken, panics once run
\* has closed the channel
SendErr(t) ==
    /\ ~panicked
    /\ pc[t] = "fl_err"
    /\ IF errClosed
          THEN /\ panicked' = TRUE
               /\ UNCHANGED <<errChan, pc>>
          ELSE /\ Len(errChan) < 1
               /\ errChan' = Append(errChan, "err")
               /\ pc' = [pc EXCEPT ![t] = "fl_reset"]
               /\ UNCHANGED panicked
    /\ UNCHANGED <<newVars, asyncVars, cfgVars, ctxVars, chanVars, errClosed, tickVars, contVars,
                   cur, tmp, fctx, req, callVars, histVars>>

\* buffer.container.Reset()
Reset(t) ==
    /\ ~panicked
    /\ pc[t] = "fl_reset"
    /\ array' = <<>>
    /\ After(t)
    /\ UNCHANGED <<newVars, asyncVars, cfgVars, ctxVars, chanVars, errVars, sink,
                   failsLeft, cur, tmp, fctx, req, callVars, histVars, panicked>>

\* ----------------------------------------------------------- putAndCheck
\* zero values the run loop has received from the closed dataChan and put
ZerosTaken == Cardinality({i \in 1..Len(putLog) : putLog[i][1] = ZeroItem})

\* mutant of Recv: the channel is received from twice (once in the case
\* clause, once in its body), so the first of two queued items is discarded
RecvTwice(t) ==
    /\ IF Len(dataChan) >= 2
          THEN /\ cur' = [cur EXCEPT ![t] = dataChan[2]]
               /\ dataChan' = Tail(Tail(dataChan))
          ELSE IF dataChan # <<>>
          THEN /\ cur' = [cur EXCEPT ![t] = Head(dataChan)]
               /\ dataChan' = Tail(dataChan)
          ELSE /\ cur' = [cur EXCEPT ![t] = ZeroItem]
               /\ UNCHANGED dataChan
    /\ pc' = [pc EXCEPT ![t] = "put"]

\* data := <-buffer.dataChan, by goroutine t: the oldest queued item, or the
\* zero value once the channel is closed and empty
Recv(t) ==
    /\ IF dataChan # <<>>
          THEN /\ cur' = [cur EXCEPT ![t] = Head(dataChan)]
               /\ dataChan' = Tail(dataChan)
          ELSE /\ cur' = [cur EXCEPT ![t] = ZeroItem]
               /\ UNCHANGED dataChan
    /\ pc' = [pc EXCEPT ![t] = "put"]

\* buffer.container.Put(data): append reads the slice header ...
PutInvoke(t) ==
    /\ ~panicked
    /\ pc[t] = "put"
    /\ tmp' = [tmp EXCEPT ![t] = array]
    /\ putLog' = Append(putLog, <<cur[t], t>>)
    /\ pc' = [pc EXCEPT ![t] = "put_wr"]
    /\ UNCHANGED <<newVars, asyncVars, cfgVars, ctxVars, chanVars, errVars, tickVars, contVars,
                   cur, fctx, req, callVars, snap, sinkWhy, putErrs, panicked>>

\* ... and stores the extended slice; Put returns nil
PutWrite(t) ==
    /\ ~panicked
    /\ pc[t] = "put_wr"
    /\ array' = Append(tmp[t], cur[t])
    /\ tmp' = [tmp EXCEPT ![t] = <<>>]
    /\ pc' = [pc EXCEPT ![t] = "check"]
    /\ UNCHANGED <<newVars, asyncVars, cfgVars, ctxVars, chanVars, errVars, tickVars, sink, failsLeft,
                   cur, fctx, req, callVars, histVars, panicked>>

\* Container.Put returns an error (a Container other than ArrayContainer):
\* the item is not stored
PutFail(t) ==
    /\ ~panicked
    /\ pc[t] = "put_wr"
    /\ failsLeft > 0
    /\ failsLeft' = failsLeft - 1
    /\ tmp' = [tmp EXCEPT ![t] = <<>>]
    /\ putErrs' = putErrs \cup {cur[t]}
    /\ pc' = [pc EXCEPT ![t] = "put_err"]
    /\ UNCHANGED <<newVars, asyncVars, cfgVars, ctxVars, chanVars, errVars, tickVars, array, sink,
                   cur, fctx, req, callVars, putLog, snap, sinkWhy, panicked>>

\* putAndCheck: buffer.errChan <- err after a failed Put, then straight on to
\* the IsFull check; blocks while the slot is taken, panics once run has
\* closed the channel
PutSendErr(t) ==
    /\ ~panicked
    /\ pc[t] = "put_err"
    /\ IF errClosed
          THEN /\ panicked' = TRUE
               /\ UNCHANGED <<errChan, pc>>
          ELSE /\ Len(errChan) < 1
               /\ errChan' = Append(errChan, "err")
               /\ pc' = [pc EXCEPT ![t] = "check"]
               /\ UNCHANGED panicked
    /\ UNCHANGED <<newVars, asyncVars, cfgVars, ctxVars, chanVars, errClosed, tickVars, contVars,
                   cur, tmp, fctx, req, callVars, histVars>>

\* if buffer.container.IsFull() is false putAndCheck returns
CheckNotFull(t) ==
    /\ ~panicked
    /\ pc[t] = "check"
    /\ ~IsFull
    /\ pc' = [pc EXCEPT ![t] = Back(t)]
    /\ UNCHANGED <<newVars, asyncVars, cfgVars, ctxVars, chanVars, errVars, tickVars, contVars,
                   cur, tmp, fctx, req, callVars, histVars, panicked>>

\* mutant of CheckFullSync: the capacity-triggered flush is spawned although
\* SyncAutoFlush is set
CheckFullSyncSpawns(t) ==
    /\ ~panicked
    /\ pc[t] = "check"
    /\ IsFull
    /\ SyncAutoFlush
    /\ FreeG # {}
    /\ tickerOn' = TRUE
    /\ pc' = [pc EXCEPT ![t] = Back(t), ![PickG] = "fl_call"]
    /\ fctx' = [fctx EXCEPT ![PickG] = "go"]
    /\ UNCHANGED <<newVars, asyncVars, cfgVars, ctxVars, chanVars, errVars,
                   contVars, cur, tmp, req, callVars, histVars, panicked>>

\* the container is full, SyncAutoFlush: stop the ticker and flush inline
CheckFullSync(t) ==
    /\ ~panicked
    /\ pc[t] = "check"
    /\ IsFull
    /\ SyncAutoFlush
    /\ tickerOn' = FALSE
    /\ pc' = [pc EXCEPT ![t] = "fl_call"]
    /\ fctx' = [fctx EXCEPT ![t] = "cap"]
    /\ UNCHANGED <<newVars, asyncVars, cfgVars, ctxVars, chanVars, errVars,
                   contVars, cur, tmp, req, callVars, histVars, panicked>>

\* the container is full, asynchronous policy: stop the ticker, spawn the
\* flush goroutine, restart the ticker, return
CheckFullAsync(t) ==
    /\ ~panicked
    /\ pc[t] = "check"
    /\ IsFull
    /\ ~SyncAutoFlush
    /\ FreeG # {}
    /\ tickerOn' = TRUE
    /\ pc' = [pc EXCEPT ![t] = Back(t), ![PickG] = "fl_call"]
    /\ fctx' = [fctx EXCEPT ![PickG] = "go"]
    /\ UNCHANGED <<newVars, asyncVars, cfgVars, ctxVars, chanVars, errVars,
                   contVars, cur, tmp, req, callVars, histVars, panicked>>

\* -------------------------------------------------------------- Buffer.run
\* mutant of RunExit: run returns from its select without looking at Done()
RunExitAnytime ==
    /\ ~panicked
    /\ pc["run"] = "select"
    /\ pc' = [pc EXCEPT !["run"] = "exit"]
    /\ tickerOn' = IF DisableAutoFlush THEN tickerOn ELSE FALSE
    /\ errClosed' = TRUE
    /\ UNCHANGED <<newVars, asyncVars, cfgVars, ctxVars, chanVars, errChan,
                   contVars, cur, tmp, fctx, req, callVars, histVars, panicked>>

\* case <-buffer.context.Done(): return; the deferred calls stop the ticker
\* (unless DisableAutoFlush) and close errChan
RunExit ==
    /\ ~panicked
    /\ pc["run"] = "select"
    /\ ctxDone
    /\ pc' = [pc EXCEPT !["run"] = "exit"]
    /\ tickerOn' = IF DisableAutoFlush THEN tickerOn ELSE FALSE
    /\ errClosed' = TRUE
    /\ UNCHANGED <<newVars, asyncVars, cfgVars, ctxVars, chanVars, errChan,
                   contVars, cur, tmp, fctx, req, callVars, histVars, panicked>>

\* case data := <-buffer.dataChan
RunRecvData ==
    /\ ~panicked
    /\ pc["run"] = "select"
    /\ \/ dataChan # <<>>
       \/ chansClosed /\ ZerosTaken < MaxZeros
    /\ Recv("run")
    /\ UNCHANGED <<newVars, asyncVars, cfgVars, ctxVars, chansClosed, nEnq, errVars, tickVars,
                   contVars, tmp, fctx, req, callVars, histVars, panicked>>

\* the interval elapses on the running ticker and run takes
\* case <-buffer.autoFlushTicker.C; SyncAutoFlush: stop the ticker, flush
\* inline
RunTickSync ==
    /\ ~panicked
    /\ pc["run"] = "select"
    /\ tickerOn
    /\ SyncAutoFlush
    /\ tickerOn' = FALSE
    /\ pc' = [pc EXCEPT !["run"] = "fl_call"]
    /\ fctx' = [fctx EXCEPT !["run"] = "tick"]
    /\ UNCHANGED <<newVars, asyncVars, cfgVars, ctxVars, chanVars, errVars, contVars,
                   cur, tmp, req, callVars, histVars, panicked>>

\* the same case under the asynchronous policy: stop the ticker, spawn the
\* flush goroutine, restart the ticker
RunTickAsync ==
    /\ ~panicked
    /\ pc["run"] = "select"
    /\ tickerOn
    /\ ~SyncAutoFlush
    /\ FreeG # {}
    /\ tickerOn' = TRUE
    /\ pc' = [pc EXCEPT ![PickG] = "fl_call"]
    /\ fctx' = [fctx EXCEPT ![PickG] = "go"]
    /\ UNCHANGED <<newVars, asyncVars, cfgVars, ctxVars, chanVars, errVars, contVars,
                   cur, tmp, req, callVars, histVars, panicked>>

\* mutant of RunRecvFlush: an asynchronous Flush waits for done like a
\* synchronous one
RunRecvFlushWaits(c) ==
    /\ ~panicked
    /\ pc["run"] = "select"
    /\ cpc[c] \in {"flush_send_sync", "flush_send_async"}
    /\ ~chansClosed
    /\ req' = [caller |-> c, async |-> FALSE]
    /\ cpc' = [cpc EXCEPT ![c] = "flush_wait"]
    /\ UNCHANGED res
    /\ pc' = [pc EXCEPT !["run"] = "fl_call"]
    /\ fctx' = [fctx EXCEPT !["run"] = "man"]
    /\ snap' = array
    /\ UNCHANGED <<newVars, asyncVars, cfgVars, ctxVars, chanVars, errVars, tickVars, contVars,
                   cur, tmp, calls, nCloseNil, putLog, sinkWhy, putErrs, panicked>>

\* case flushSignal := <-buffer.flushSignalChan, the rendezvous with caller
\* c's send; an asynchronous Flush returns nil here, a synchronous one goes on
\* to wait for done
RunRecvFlush(c) ==
    /\ ~panicked
    /\ pc["run"] = "select"
    /\ cpc[c] \in {"flush_send_sync", "flush_send_async"}
    /\ ~chansClosed
    /\ req' = [caller |-> c, async |-> (cpc[c] = "flush_send_async")]
    /\ IF cpc[c] = "flush_send_async"
          THEN /\ cpc' = [cpc EXCEPT ![c] = "idle"]
               /\ res' = [res EXCEPT ![c] = "nil"]
          ELSE /\ cpc' = [cpc EXCEPT ![c] = "flush_wait"]
               /\ UNCHANGED res
    /\ pc' = [pc EXCEPT !["run"] = "fl_call"]
    /\ fctx' = [fctx EXCEPT !["run"] = "man"]
    /\ snap' = array
    /\ UNCHANGED <<newVars, asyncVars, cfgVars, ctxVars, chanVars, errVars, tickVars, contVars,
                   cur, tmp, calls, nCloseNil, putLog, sinkWhy, putErrs, panicked>>

\* the same case once cleanup has closed flushSignalChan: the receive yields
\* a nil flushSignal
RunRecvNil ==
    /\ ~panicked
    /\ pc["run"] = "select"
    /\ chansClosed
    /\ req' = NilSignal
    /\ pc' = [pc EXCEPT !["run"] = "fl_call"]
    /\ fctx' = [fctx EXCEPT !["run"] = "man"]
    /\ snap' = array
    /\ UNCHANGED <<newVars, asyncVars, cfgVars, ctxVars, chanVars, errVars, tickVars, contVars,
                   cur, tmp, callVars, putLog, sinkWhy, putErrs, panicked>>

\* if !flushSignal.async { flushSignal.done <- void{} }: the caller blocked on
\* <-done returns nil; a nil flushSignal is dereferenced
RunDone ==
    /\ ~panicked
    /\ pc["run"] = "mdone"
    /\ IF req = NilSignal
          THEN /\ panicked' = TRUE
               /\ UNCHANGED <<pc, cpc, res, req, snap>>
          ELSE /\ IF req.async
                     THEN UNCHANGED <<cpc, res>>
                     ELSE /\ cpc' = [cpc EXCEPT ![req.caller] = "idle"]
                          /\ res' = [res EXCEPT ![req.caller] = "nil"]
               /\ pc' = [pc EXCEPT !["run"] = "select"]
               /\ req' = NilSignal
               /\ snap' = <<>>
               /\ UNCHANGED panicked
    /\ UNCHANGED <<newVars, asyncVars, cfgVars, ctxVars, chanVars, errVars, tickVars, contVars,
                   cur, tmp, fctx, calls, nCloseNil, putLog, sinkWhy, putErrs>>

\* ---------------------------------------------------------- Buffer.cleanup
\* <-buffer.context.Done()
CleanupWake ==
    /\ ~panicked
    /\ pc["cleanup"] = "wait"
    /\ ctxDone
    /\ pc' = [pc EXCEPT !["cleanup"] = "drain"]
    /\ UNCHANGED <<newVars, asyncVars, cfgVars, ctxVars, chanVars, errVars, tickVars, contVars,
                   cur, tmp, fctx, req, callVars, histVars, panicked>>

\* case data := <-buffer.dataChan
CleanupRecv ==
    /\ ~panicked
    /\ pc["cleanup"] = "drain"
    /\ dataChan # <<>>
    /\ Recv("cleanup")
    /\ UNCHANGED <<newVars, asyncVars, cfgVars, ctxVars, chansClosed, nEnq, errVars, tickVars,
                   contVars, tmp, fctx, req, callVars, histVars, panicked>>

\* default: (nothing queued) call the last flush
CleanupDefault ==
    /\ ~panicked
    /\ pc["cleanup"] = "drain"
    /\ dataChan = <<>>
    /\ pc' = [pc EXCEPT !["cleanup"] = "fl_call"]
    /\ fctx' = [fctx EXCEPT !["cleanup"] = "final"]
    /\ UNCHANGED <<newVars, asyncVars, cfgVars, ctxVars, chanVars, errVars, tickVars, contVars,
                   cur, tmp, req, callVars, histVars, panicked>>

\* close(buffer.dataChan); close(buffer.flushSignalChan); return
CleanupClose ==
    /\ ~panicked
    /\ pc["cleanup"] = "close"
    /\ chansClosed' = TRUE
    /\ pc' = [pc EXCEPT !["cleanup"] = "done"]
    /\ UNCHANGED <<newVars, asyncVars, cfgVars, ctxVars, dataChan, nEnq, errVars, tickVars, contVars,
                   cur, tmp, fctx, req, callVars, histVars, panicked>>

\* ----------------------------------------------------------- specification
Next ==
    \/ \E c \in Callers : PutCall(c)
    \/ \E c \in Callers : PutSend(c)
    \/ \E c \in Callers, async \in BOOLEAN : FlushCall(c, async)
    \/ \E c \in Callers : CloseCall(c)
    \/ \E c \in Callers : CloseCancel(c)
    \/ \E c \in Callers : SendOnClosed(c)
    \/ ParentCancel
    \/ RunExit
    \/ RunRecvData
    \/ RunTickSync
    \/ RunTickAsync
    \/ \E c \in Callers : RunRecvFlush(c)
    \/ RunRecvNil
    \/ RunDone
    \/ CleanupWake
    \/ CleanupRecv
    \/ CleanupDefault
    \/ CleanupClose
    \/ \E t \in Loops : PutInvoke(t)
    \/ \E t \in Loops : PutWrite(t)
    \/ \E t \in Loops : CheckNotFull(t)
    \/ \E t \in Loops : CheckFullSync(t)
    \/ \E t \in Loops : CheckFullAsync(t)
    \/ \E t \in Threads : FlushBatchOk(t)
    \/ \E t \in Threads : FlushBatchFail(t)
    \/ \E t \in Threads : FlushTrunc(t)
    \/ \E t \in Threads : SendErr(t)
    \/ \E t \in Threads : Reset(t)

Spec == Init /\ [][Next]_vars

\* a Container whose Put may fail, and an application that never receives
\* from the error channel
NextUnread ==
    \/ \E c \in Callers : PutCall(c)
    \/ \E c \in Callers : PutSend(c)
    \/ \E c \in Callers, async \in BOOLEAN : FlushCall(c, async)
    \/ \E c \in Callers : CloseCall(c)
    \/ \E c \in Callers : CloseCancel(c)
    \/ \E c \in Callers : SendOnClosed(c)
    \/ ParentCancel
    \/ RunExit
    \/ RunRecvData
    \/ RunTickSync
    \/ RunTickAsync
    \/ \E c \in Callers : RunRecvFlush(c)
    \/ RunRecvNil
    \/ RunDone
    \/ CleanupWake
    \/ CleanupRecv
    \/ CleanupDefault
    \/ CleanupClose
    \/ \E t \in Loops : PutInvoke(t)
    \/ \E t \in Loops : PutWrite(t)
    \/ \E t \in Loops : PutFail(t)
    \/ \E t \in Loops : PutSendErr(t)
    \/ \E t \in Loops : CheckNotFull(t)
    \/ \E t \in Loops : CheckFullSync(t)
    \/ \E t \in Loops : CheckFullAsync(t)
    \/ \E t \in Threads : FlushBatchOk(t)
    \/ \E t \in Threads : FlushBatchFail(t)
    \/ \E t \in Threads : FlushTrunc(t)
    \/ \E t \in Threads : SendErr(t)
    \/ \E t \in Threads : Reset(t)

SpecUnread == InitUnread /\ [][NextUnread]_vars

\* --------------------------------------------------------------- NewBuffer
\* before NewBuffer is called: no goroutine exists, no ticker runs
InitNew ==
    /\ config \in ConfigInputs
    /\ newRes = NoResult(config)
    /\ SyncAutoFlush = config.SyncAutoFlush
    /\ DisableAutoFlush = config.DisableAutoFlush
    /\ ctxDone = FALSE
    /\ dataChan = <<>>
    /\ chansClosed = FALSE
    /\ errChan = <<>>
    /\ errClosed = FALSE
    /\ tickerOn = FALSE
    /\ array = <<>>
    /\ sink = <<>>
    /\ failsLeft = MaxFails
    /\ pc = [t \in Threads |-> IF t \in Loops THEN "none" ELSE "idle"]
    /\ cur = [t \in Loops |-> ZeroItem]
    /\ tmp = [t \in Loops |-> <<>>]
    /\ fctx = [t \in Threads |-> "none"]
    /\ req = NilSignal
    /\ cpc = [c \in Callers |-> "idle"]
    /\ calls = 0
    /\ res = [c \in Callers |-> "none"]
    /\ nEnq = 0
    /\ nAtCancel = -1
    /\ putLog = <<>>
    /\ snap = <<>>
    /\ sinkWhy = <<>>
    /\ putErrs = {}
    /\ nCloseNil = 0
    /\ panicked = FALSE
    /\ NewArrayContainer

\* NewBuffer(ctx, container, config): on a Validate error it returns at once;
\* otherwise it builds the Buffer and starts cleanup and run, which creates
\* the ticker and stops it at once when DisableAutoFlush
NewBufferCall ==
    /\ ~newRes.called
    /\ newRes' = NewBuffer(config)
    /\ IF newRes'.err = "nil"
       THEN /\ pc' = [t \in Threads |->
                        IF t = "run" THEN "select"
                        ELSE IF t = "cleanup" THEN "wait" ELSE "idle"]
            /\ tickerOn' = ~DisableAutoFlush
       ELSE UNCHANGED <<pc, tickerOn>>
    /\ UNCHANGED <<config, asyncVars, cfgVars, ctxVars, chanVars, errVars,
                   contVars, cur, tmp, fctx, req, callVars, histVars, panicked>>

NextNew == NewBufferCall

SpecNew == InitNew /\ [][NextNew]_vars

\* ------------------------------------------- asynchronous ArrayContainer
\* The container built with flushAsync = true and used on its own by one
\* goroutine that calls Put, Flush and Reset one after the other, next to
\* the goroutines its Flush spawns.  A spawned goroutine reads
\* container.array when it runs, with no synchronisation with the caller:
\* it sees the array as it is before the caller's reslice, or as any later
\* statement of the caller left it.
bufferVars == <<cfgVars, ctxVars, chanVars, errVars, tickVars, contVars,
                loopVars, callVars, histVars, panicked, newVars>>

\* the buffer is constructed and left alone
InitArray ==
    /\ Init
    /\ ~SyncAutoFlush
    /\ ~DisableAutoFlush

\* the capacity append gives a full slice of this capacity
GrowCap(c) == IF c = 0 THEN 1 ELSE 2 * c

\* container.array[:n], for n <= cap(container.array)
Cells(n) == [i \in 1..n |-> IF i <= Len(arrayA) THEN arrayA[i] ELSE ZeroItem]

\* Put: container.array = append(container.array, element); return nil
PutA ==
    /\ crashA = "none"
    /\ pcA = "idle"
    /\ nPutA < MaxPutsA
    /\ nPutA' = nPutA + 1
    /\ arrayA' = Append(arrayA, nPutA + 1)
    /\ capA' = IF Len(arrayA) = capA THEN GrowCap(capA) ELSE capA
    /\ UNCHANGED <<bufferVars, pcA, pendA, outA, snapA, failsA, crashA>>

\* Flush, flushAsync branch: go func() { ... }()
FlushSpawnA ==
    /\ crashA = "none"
    /\ pcA = "idle"
    /\ pendA < MaxPendA
    /\ pendA' = pendA + 1
    /\ snapA' = Append(snapA, arrayA)
    /\ pcA' = "reslice"
    /\ UNCHANGED <<bufferVars, arrayA, capA, outA, failsA, crashA, nPutA>>

\* Flush, flushAsync branch: container.array = container.array[flushSize:];
\* return nil.  The slice expression panics when flushSize > len(array).
FlushResliceA ==
    /\ crashA = "none"
    /\ pcA = "reslice"
    /\ IF FlushSize <= Len(arrayA)
       THEN /\ arrayA' = SubSeq(arrayA, FlushSize + 1, Len(arrayA))
            /\ capA' = capA - FlushSize
            /\ pcA' = "idle"
            /\ UNCHANGED crashA
       ELSE /\ crashA' = "slice bounds out of range"
            /\ UNCHANGED <<arrayA, capA, pcA>>
    /\ UNCHANGED <<bufferVars, pendA, outA, snapA, failsA, nPutA>>

\* the spawned goroutine: flushBatch(container.array[:flushSize]) returns nil
FlushBatchOkA ==
    /\ crashA = "none"
    /\ pendA > 0
    /\ FlushSize <= capA
    /\ outA' = Append(outA, Cells(FlushSize))
    /\ pendA' = pendA - 1
    /\ UNCHANGED <<bufferVars, arrayA, capA, pcA, snapA, failsA, crashA, nPutA>>

\* the spawned goroutine: flushBatch returns an error; panic(err)
FlushBatchFailA ==
    /\ crashA = "none"
    /\ pendA > 0
    /\ FlushSize <= capA
    /\ failsA > 0
    /\ failsA' = failsA - 1
    /\ pendA' = pendA - 1
    /\ crashA' = "flushBatch error"
    /\ UNCHANGED <<bufferVars, arrayA, capA, pcA, outA, snapA, nPutA>>

\* the spawned goroutine: container.array[:flushSize] panics when
\* flushSize > cap(array)
FlushBoundsA ==
    /\ crashA = "none"
    /\ pendA > 0
    /\ FlushSize > capA
    /\ pendA' = pendA - 1
    /\ crashA' = "slice bounds out of range"
    /\ UNCHANGED <<bufferVars, arrayA, capA, pcA, outA, snapA, failsA, nPutA>>

\* Reset: container.array = make([]T, 0, container.flushSize)
ResetA ==
    /\ crashA = "none"
    /\ pcA = "idle"
    /\ arrayA' = <<>>
    /\ capA' = FlushSize
    /\ UNCHANGED <<bufferVars, pcA, pendA, outA, snapA, failsA, crashA, nPutA>>

NextArray ==
    \/ PutA
    \/ FlushSpawnA
    \/ FlushResliceA
    \/ FlushBatchOkA
    \/ FlushBatchFailA
    \/ FlushBoundsA
    \/ ResetA

SpecArray == InitArray /\ [][NextArray]_vars

\* ------------------------------------------- asynchronous policy, Put only
\* The buffer under the default policy (SyncAutoFlush = false) with a sink
\* that never fails and an application that only calls Put: run, its
\* putAndCheck and the flush goroutines it spawns on a full container and on
\* the timer.
GsFill == {"g" \o ToString(i) : i \in 1..MaxGFill}
ThreadsFill == Loops \cup GsFill

InitFill ==
    /\ SyncAutoFlush = FALSE
    /\ DisableAutoFlush \in BOOLEAN
    /\ ctxDone = FALSE
    /\ dataChan = <<>>
    /\ chansClosed = FALSE
    /\ errChan = <<>>
    /\ errClosed = FALSE
    /\ tickerOn = ~DisableAutoFlush
    /\ array = <<>>
    /\ sink = <<>>
    /\ failsLeft = 0
    /\ pc = [t \in ThreadsFill |->
                IF t = "run" THEN "select" ELSE IF t = "cleanup" THEN "wait" ELSE "idle"]
    /\ cur = [t \in Loops |-> ZeroItem]
    /\ tmp = [t \in Loops |-> <<>>]
    /\ fctx = [t \in ThreadsFill |-> "none"]
    /\ req = NilSignal
    /\ cpc = [c \in Callers |-> "idle"]
    /\ calls = 0
    /\ res = [c \in Callers |-> "none"]
    /\ nEnq = 0
    /\ nAtCancel = -1
    /\ putLog = <<>>
    /\ snap = <<>>
    /\ sinkWhy = <<>>
    /\ putErrs = {}
    /\ nCloseNil = 0
    /\ panicked = FALSE
    /\ config = RunConfig(SyncAutoFlush, DisableAutoFlush)
    /\ newRes = NewBuffer(config)
    /\ NewArrayContainer

NextFill ==
    \/ \E c \in Callers : PutCall(c)
    \/ \E c \in Callers : PutSend(c)
    \/ RunRecvData
    \/ RunTickAsync
    \/ \E t \in Loops : PutInvoke(t)
    \/ \E t \in Loops : PutWrite(t)
    \/ \E t \in Loops : CheckNotFull(t)
    \/ \E t \in Loops : CheckFullAsync(t)
    \/ \E t \in ThreadsFill : FlushBatchOk(t)
    \/ \E t \in ThreadsFill : FlushTrunc(t)

SpecFill == InitFill /\ [][NextFill]_vars

\* ------------------------------------------------------------- vocabulary
Range(s) == {s[i] : i \in 1..Len(s)}

\* the items handed to Container.Put so far
PutItems == {putLog[i][1] : i \in 1..Len(putLog)}

\* the real (non-zero) items in the order Container.Put was called on them
RECURSIVE RealPuts(_)
RealPuts(log) ==
    IF log = <<>> THEN <<>>
    ELSE IF Head(log)[1] = ZeroItem THEN RealPuts(Tail(log))
    ELSE <<Head(log)[1]>> \o RealPuts(Tail(log))

\* everything the sink received, batch after batch
RECURSIVE Flatten(_)
Flatten(batches) ==
    IF batches = <<>> THEN <<>> ELSE Head(batches) \o Flatten(Tail(batches))

\* how often item x reached the sink
SinkCount(x) ==
    Cardinality({i \in 1..Len(Flatten(sink)) : Flatten(sink)[i] = x})

\* goroutine t is inside a Container.Put call
PutInProgress(t) == pc[t] = "put_wr"

\* cleanup has closed dataChan and flushSignalChan
Terminated == chansClosed

\* no flushBatch call has returned an error
NoSinkError == failsLeft = MaxFails

\* nothing is running any more: run has returned, cleanup has returned, no
\* flush goroutine is alive, no caller is inside a call
Quiescent ==
    /\ pc["run"] = "exit"
    /\ pc["cleanup"] = "done"
    /\ \A g \in Gs : pc[g] = "idle"
    /\ \A c \in Callers : cpc[c] = "idle"

\* shutdown, if it has begun, was requested through Close
ClosedByClose == ctxDone => nCloseNil >= 1

\* ------------------------------------------------------------------ claims

\* C1: at most one Container.Put call is in progress in every reachable
\* state; the run loop and cleanup never put at the same time.
C1_OnePutInFlight ==
    ClosedByClose => ~(PutInProgress("run") /\ PutInProgress("cleanup"))

\* C2: once the buffer is Terminated every item whose Put returned nil before
\* the shutdown signal has been passed to Container.Put (the final flush,
\* which precedes termination, came after all of them).
C2_DrainedWhenTerminated ==
    (Terminated /\ ClosedByClose) => \A k \in 1..nAtCancel : k \in PutItems

\* C3: K < N items put, then Close, nothing else: once Close has returned
\* exactly those K items are in the sink, once each, and the container is
\* empty.
C3_CloseDrains ==
    (/\ nCloseNil = 1
     /\ nEnq >= 1
     /\ nEnq < FlushSize
     /\ calls = nEnq + 1
     /\ \A c \in Callers : cpc[c] = "idle"
     /\ NoSinkError)
    => /\ Flatten(sink) = [k \in 1..nEnq |-> k]
       /\ array = <<>>

\* C4: concurrent producers whose Puts all returned nil, then Close, no
\* error: when everything has stopped each item put is in the sink exactly
\* once.
C4_AllItemsOnce ==
    (/\ Quiescent
     /\ ~panicked
     /\ NoSinkError
     /\ nCloseNil >= 1
     /\ nAtCancel = nEnq)
    => \A k \in 1..nEnq : SinkCount(k) = 1

\* C5: Container.Put is called on the items in the order Put enqueued them
\* (item k is the k-th enqueued), Close or no Close.
C5_PutInEnqueueOrder ==
    ClosedByClose =>
    \A i, j \in 1..Len(RealPuts(putLog)) :
        i < j => RealPuts(putLog)[i] < RealPuts(putLog)[j]

\* run is about to call Container.Flush for a synchronous manual request
ServingSyncFlush ==
    /\ pc["run"] = "fl_call"
    /\ fctx["run"] = "man"
    /\ req # NilSignal
    /\ ~req.async

\* the Container.Put call on item k has returned
PutReturned(k) ==
    /\ k \in PutItems
    /\ \A t \in Loops : ~(PutInProgress(t) /\ cur[t] = k)

\* the items goroutine t has called Container.Put on, in call order
RECURSIVE PutsBy(_, _)
PutsBy(t, log) ==
    IF log = <<>> THEN <<>>
    ELSE IF Head(log)[2] = t /\ Head(log)[1] # ZeroItem
            THEN <<Head(log)[1]>> \o PutsBy(t, Tail(log))
            ELSE PutsBy(t, Tail(log))

\* the items that left dataChan and did not go to cleanup: run received them
RunReceived ==
    {k \in 1..nEnq :
        /\ k \notin Range(dataChan)
        /\ k \notin Range(PutsBy("cleanup", putLog))
        /\ ~(pc["cleanup"] = "put" /\ cur["cleanup"] = k)}

\* C6 (as claimed): one caller completes Put for x1..xk, k within the
\* channel capacity, then calls Flush(false): when the loop calls
\* Container.Flush for that request x1..xk have all been put, in order.
C6_AllPutBeforeSyncFlush ==
    (/\ ServingSyncFlush
     /\ req.caller = 1
     /\ ~Started(2)
     /\ nEnq <= ChanBufSize)
    => /\ RealPuts(putLog) = [k \in 1..nEnq |-> k]
       /\ \A k \in 1..nEnq : PutReturned(k)

\* C6 (amended): when the loop calls Container.Flush for a synchronous
\* manual request, every item the run loop received before the request has
\* been put and its Put has returned, and run put them in enqueue order;
\* items still queued in dataChan are not covered.
C6_ReceivedPutBeforeSyncFlush ==
    ServingSyncFlush =>
        /\ \A k \in RunReceived : PutReturned(k)
        /\ Range(PutsBy("run", putLog)) = RunReceived
        /\ \A i, j \in 1..Len(PutsBy("run", putLog)) :
              i < j => PutsBy("run", putLog)[i] < PutsBy("run", putLog)[j]

\* a synchronous request is being served after run itself received and put
\* an item, while a later item is still queued in dataChan
C6_Witness ==
    /\ ServingSyncFlush
    /\ Len(PutsBy("run", putLog)) >= 1
    /\ dataChan # <<>>

\* C7: after a Close has returned nil every later Put, Flush and Close
\* returns ErrClosed at once: the caller does not block, nothing is enqueued,
\* no flush request is sent.
C7_ErrClosedAfterClose ==
    [][(nCloseNil >= 1 /\ calls' # calls) =>
          /\ cpc' = cpc
          /\ \E c \in Callers :
                /\ cpc[c] = "idle"
                /\ res' = [res EXCEPT ![c] = "ErrClosed"]
          /\ UNCHANGED <<dataChan, nEnq, nCloseNil, ctxDone, req, pc>>]_vars

\* one caller: its Close returned nil and its two later calls returned
\* ErrClosed
C7_Witness ==
    /\ ~Started(2)
    /\ nCloseNil = 1
    /\ res[1] = "ErrClosed"
    /\ calls = MaxCalls

\* C8: of all Close calls on one instance, concurrent ones included, exactly
\* one returns nil; never do two of them return nil.
C8_OneCloseReturnsNil == nCloseNil <= 1

\* C9: closed() is monotone: once it has reported true it reports true in
\* every later state.
C9_ClosedMonotone == [][closed => closed']_vars

\* the buffer was closed and has since terminated, and a later call was
\* refused
C9_Witness ==
    /\ closed
    /\ Terminated
    /\ pc["run"] = "exit"
    /\ \E c \in Callers : res[c] = "ErrClosed"

\* C10: in the step in which Flush(false) returns nil the loop's
\* Container.Flush for that request has returned; with no sink error,
\* everything the container held when the loop took the request is in the
\* sink and the container is empty.
C10_SyncFlushDone ==
    [][(/\ req # NilSignal
        /\ ~req.async
        /\ cpc[req.caller] = "flush_wait"
        /\ cpc'[req.caller] = "idle"
        /\ NoSinkError
        /\ ClosedByClose)
       => /\ pc["run"] = "mdone"
          /\ Range(snap) \subseteq Range(Flatten(sink))
          /\ array = <<>>]_vars

\* every call made so far is a Put and nothing has cancelled the context
OnlyPuts ==
    /\ ~ctxDone
    /\ calls = nEnq + Cardinality({c \in Callers : cpc[c] = "put_send"})

\* how often item x is in the container
ArrayCount(x) == Cardinality({i \in 1..Len(array) : array[i] = x})

\* run is between receiving a manual flush request and signalling it done
ServingPositions == {"fl_call", "fl_trunc", "fl_err", "fl_reset", "mdone"}

\* C11: Flush(true) returns nil in the very step in which run receives the
\* request, before Container.Flush has run (container and sink untouched);
\* run then calls Container.Flush for the request, is not blocked before
\* that call, and does not call it a second time for the same request.
C11_AsyncFlushAccepted ==
    /\ [][\A c \in Callers :
            (cpc[c] = "flush_send_async" /\ cpc'[c] # cpc[c]) =>
                /\ cpc'[c] = "idle"
                /\ res'[c] = "nil"
                /\ pc["run"] = "select"
                /\ pc'["run"] = "fl_call"
                /\ fctx'["run"] = "man"
                /\ req' = [caller |-> c, async |-> TRUE]
                /\ UNCHANGED <<array, sink>>]_vars
    /\ [](req # NilSignal =>
            /\ pc["run"] \in ServingPositions
            /\ fctx["run"] = "man")
    /\ []((pc["run"] = "fl_call" /\ ~panicked) => ENABLED FlushBatchOk("run"))
    /\ [][(req # NilSignal /\ pc["run"] # "fl_call") => pc'["run"] # "fl_call"]_vars

\* an asynchronous Flush has returned nil and run, having flushed a
\* non-empty container for it, is about to finish the request
C11_Witness ==
    /\ req # NilSignal
    /\ req.async
    /\ pc["run"] = "mdone"
    /\ res[req.caller] = "nil"
    /\ cpc[req.caller] = "idle"
    /\ sinkWhy # <<>>
    /\ sinkWhy[Len(sinkWhy)] = "man"

C13_LoopNeverStuckOnErr ==
    \A t \in Loops :
        pc[t] \in {"fl_err", "put_err"} => (Len(errChan) < 1 \/ errClosed)

\* C14: when run is back in its select after a Container.Put that returned
\* an error, Container.Reset has been called: the container is empty.
C14_PutErrorReset ==
    (/\ ~ctxDone
     /\ pc["run"] = "select"
     /\ putLog # <<>>
     /\ putLog[Len(putLog)][1] \in putErrs)
    => array = <<>>

\* C15: at every call site, a Container.Flush that returns an error takes its
\* caller to the sending of the error (followed by Container.Reset).
C15_FlushErrorReported ==
    [][\A t \in Threads :
          (pc[t] = "fl_call" /\ pc'[t] # "fl_call" /\ failsLeft' < failsLeft)
          => pc'[t] = "fl_err"]_vars

\* C16: under the asynchronous policy, while a flush error can be received
\* from the error channel no Container.Reset for a failure is still
\* outstanding.
C16_ResetBeforeErrorVisible ==
    (~SyncAutoFlush /\ errChan # <<>>) => \A t \in Threads : pc[t] # "fl_reset"

\* C17: with DisableAutoFlush the ticker is not running in any reachable
\* state.
C17_TimerNeverArmed == DisableAutoFlush => ~tickerOn

\* C18: synchronous policy, only Puts, no error, no timer flush that took
\* items: when run is back in its select after K items, floor(K / FlushSize)
\* flushes have happened, all capacity-triggered, each handed FlushSize items
\* to the sink, K mod FlushSize items remain, and nothing is lost or
\* reordered.
C18_CapacityFlushes ==
    (/\ SyncAutoFlush
     /\ OnlyPuts
     /\ NoSinkError
     /\ pc["run"] = "select"
     /\ "tick" \notin Range(sinkWhy))
    => /\ Len(sink) = Len(putLog) \div FlushSize
       /\ Len(array) = Len(putLog) % FlushSize
       /\ \A i \in 1..Len(sink) :
             Len(sink[i]) = FlushSize /\ sinkWhy[i] = "cap"
       /\ Flatten(sink) \o array = [k \in 1..Len(putLog) |-> k]

\* one more item than the flush size has been processed: one flush, one item
\* left
C18_Witness ==
    /\ SyncAutoFlush
    /\ OnlyPuts
    /\ NoSinkError
    /\ pc["run"] = "select"
    /\ "tick" \notin Range(sinkWhy)
    /\ Len(putLog) = FlushSize + 1
    /\ Len(sink) = 1

\* C19: automatic flushing enabled, fewer than FlushSize items, only Puts:
\* Container.Flush is entered only by the timer case of run's select, and an
\* item whose Container.Put has returned is either still in the container or
\* has reached the sink exactly once (never lost, never flushed twice).
C19_TimerFlushOnce ==
    /\ [][(/\ ~DisableAutoFlush
           /\ OnlyPuts
           /\ nEnq < FlushSize
           /\ \E t \in Threads : pc[t] # "fl_call" /\ pc'[t] = "fl_call")
          => (pc["run"] = "select" /\ tickerOn)]_vars
    /\ []((/\ ~DisableAutoFlush
           /\ OnlyPuts
           /\ nEnq < FlushSize
           /\ NoSinkError
           /\ \A t \in Threads : pc[t] # "fl_trunc")
          => \A k \in 1..nEnq :
                PutReturned(k) => SinkCount(k) + ArrayCount(k) = 1)

\* C20 (as claimed): run has returned only if a Close returned nil.
C20_StopsOnlyOnClose == pc["run"] = "exit" => nCloseNil >= 1

\* C20 (amended): run returns only from its select and only once the
\* lifecycle context is cancelled; the context is cancelled only by a Close
\* that returns nil or by an event outside the façade (the cancellation of
\* the context given to NewBuffer); a Container error never makes run return.
C20_StopsOnlyOnCancel ==
    /\ [][(pc'["run"] = "exit" /\ pc["run"] # "exit")
             => (ctxDone /\ pc["run"] = "select")]_vars
    /\ [][(ctxDone' /\ ~ctxDone)
             => \/ nCloseNil' = nCloseNil + 1
                \/ (cpc' = cpc /\ res' = res /\ calls' = calls + 1)]_vars
    /\ [][failsLeft' < failsLeft => pc'["run"] = pc["run"] \/ pc'["run"] # "exit"]_vars

\* run returned although no Close was ever called; before that a
\* Container.Flush it had made itself (synchronous policy, cleanup still
\* asleep) had failed, and run had carried on
C20_Witness ==
    /\ pc["run"] = "exit"
    /\ nCloseNil = 0
    /\ \A c \in Callers : res[c] # "ErrClosed" /\ cpc[c] # "close_cancel"
    /\ SyncAutoFlush
    /\ pc["cleanup"] = "wait"
    /\ failsLeft < MaxFails

\* C21: the error channel the application holds is closed exactly when run has
\* returned: never before, and once Close has returned nil and run has
\* returned the channel NewBuffer gave the application is the closed
\* errChan, so that the application's receive loop ends.
C21_ConsumerSeesClose ==
    /\ errClosed => pc["run"] = "exit"
    /\ (nCloseNil >= 1 /\ pc["run"] = "exit")
          => (errClosed /\ newRes.errChan = "errChan")

\* C22: the inbound channel never holds more than ChanBufSize items; a Put
\* that passed the closed check completes (enqueues, returns nil) whenever
\* the open channel holds fewer than ChanBufSize items, whatever the loop,
\* the container and the sink are doing, and is suspended exactly while the
\* channel holds ChanBufSize items.
C22_PutBackPressure ==
    /\ [](Len(dataChan) <= ChanBufSize)
    /\ [](\A c \in Callers :
            (cpc[c] = "put_send" /\ ~chansClosed /\ ~panicked) =>
                (ENABLED PutSend(c) <=> Len(dataChan) < ChanBufSize))
    /\ [][\A c \in Callers :
            (cpc[c] = "put_send" /\ cpc'[c] # cpc[c]) =>
                /\ res'[c] = "nil"
                /\ dataChan' = Append(dataChan, nEnq')
                /\ UNCHANGED <<pc, array, sink>>]_vars

\* a Put is suspended on the full channel
C22_Witness ==
    \E c \in Callers :
        /\ cpc[c] = "put_send"
        /\ Len(dataChan) = ChanBufSize
        /\ ~ctxDone

C24_SyncFlushHandsAll ==
    /\ [][\A t \in Threads :
            (pc[t] = "fl_call" /\ pc'[t] = "fl_trunc") =>
                /\ sink' = IF array = <<>> THEN sink ELSE Append(sink, array)
                /\ array' = array]_vars
    /\ [][\A t \in Threads :
            (pc[t] = "fl_trunc" /\ pc'[t] # "fl_trunc") =>
                (array' = <<>> /\ ~IsFull')]_vars

\* before any shutdown, a synchronous flush has handed a batch of two items
\* to the sink and left the container empty
C24_Witness ==
    /\ ~ctxDone
    /\ SyncAutoFlush
    /\ pc["run"] = "select"
    /\ sink = <<(<<1, 2>>)>>
    /\ array = <<>>

\* C25: a Flush of the asynchronous ArrayContainer called with at least
\* FlushSize items leaves the items after the first FlushSize in the
\* container, in their order, and every slice flushBatch receives is the
\* first FlushSize items the container held at a call of Flush.
C25_AsyncFlushFirstS ==
    /\ [][(pcA = "reslice" /\ pcA' = "idle")
            => arrayA' = SubSeq(arrayA, FlushSize + 1, Len(arrayA))]_vars
    /\ []((\A i \in 1..Len(snapA) : Len(snapA[i]) >= FlushSize)
            => \A j \in 1..Len(outA) : \E i \in 1..Len(snapA) :
                  outA[j] = SubSeq(snapA[i], 1, FlushSize))

\* C26: a Flush of the asynchronous ArrayContainer returns, whatever the
\* number of items the container holds: the step of the caller that follows
\* the go statement ends no process and leaves the caller free to Put again.
C26_FlushAnyCount ==
    [][(pcA = "reslice" /\ pendA' = pendA)
         => (crashA' = "none" /\ pcA' = "idle")]_vars

\* C27: an error returned by flushBatch never ends the process, with the
\* asynchronous ArrayContainer too.
C27_SinkErrorNeverCrashes == crashA # "flushBatch error"

\* C28: putAndCheck never reaches its IsFull check with an item whose
\* Container.Put returned an error.
C28_NoCheckAfterPutError ==
    \A t \in Loops : pc[t] = "check" => cur[t] \notin putErrs

\* C29: with SyncAutoFlush no flush goroutine ever runs (timer and capacity
\* flushes are made by the loop goroutine itself, which is then not in its
\* select); without it the loop goroutines never make a timer or capacity
\* flush themselves; a manual flush is always made by run itself; a loop
\* goroutine inside a flush receives no item.
C29_PolicySelectsExecution ==
    /\ [](SyncAutoFlush => \A g \in Gs : pc[g] = "idle")
    /\ [](~SyncAutoFlush => \A t \in Loops : fctx[t] \notin {"tick", "cap"})
    /\ [](\A t \in Threads : fctx[t] = "man" => t = "run")
    /\ [](\A t \in Threads : fctx[t] = "go" => t \in Gs)
    /\ [][\A t \in Loops :
            pc[t] \in {"fl_call", "fl_trunc", "fl_err", "fl_reset"} =>
                cur'[t] = cur[t]]_vars

\* asynchronous policy: run is putting a further item while the flush it
\* spawned has not called Container.Flush yet
C29_Witness ==
    /\ ~SyncAutoFlush
    /\ \E g \in Gs : pc[g] = "fl_call"
    /\ pc["run"] = "put_wr"
    /\ ~ctxDone

\* C30: once cleanup (woken by Close) has made its final flush and closed the
\* channels, no
\* Container.Put is made any more and run starts no Container.Flush.
C30_NothingAfterFinalFlush ==
    [][(Terminated /\ ClosedByClose) =>
          /\ putLog' = putLog
          /\ ~(pc["run"] # "fl_call" /\ pc'["run"] = "fl_call")]_vars

\* C31: every slice a flush goroutine of the asynchronous ArrayContainer
\* hands to flushBatch is the first FlushSize items the container held when
\* a Flush was called, whatever the caller has done to the container since
\* (the reslice of that Flush, later Puts, later Flushes, Reset); the
\* goroutine's read of the array never fails.
C31_BatchIsSnapshot ==
    [][(/\ pendA' < pendA
        /\ failsA' = failsA
        /\ \A i \in 1..Len(snapA) : Len(snapA[i]) >= FlushSize)
       => (/\ crashA' = "none"
           /\ \E i \in 1..Len(snapA) :
                 outA' = Append(outA, SubSeq(snapA[i], 1, FlushSize)))]_vars

\* a caller is at a send on a channel cleanup has closed
CallerSendsOnClosed ==
    /\ chansClosed
    /\ \E c \in Callers :
          cpc[c] \in {"put_send", "flush_send_sync", "flush_send_async"}

\* a goroutine of the buffer is at a send on the error channel run has closed
LoopSendsOnClosed ==
    /\ errClosed
    /\ \E t \in Threads : pc[t] \in {"fl_err", "put_err"}

\* C32: no goroutine sends on the error channel once run has closed it: in a
\* state where a goroutine is at its buffer.errChan <- err with the channel
\* closed (and no caller is at a send on a closed channel), no step ends the
\* process with a panic.
C32_NoSendOnClosedErrChan ==
    [][(LoopSendsOnClosed /\ ~CallerSendsOnClosed)
          => panicked' = panicked]_vars

\* C33: a Put or Flush call that passed the closed check never sends on a
\* channel cleanup has closed: in a state where a caller is at its send with
\* the channels closed (and no goroutine of the buffer is at a send on the
\* closed error channel, and run is not about to use a nil flushSignal), no
\* step ends the process with a panic; the call ends by returning.
C33_CallsEndNormally ==
    [][(/\ ClosedByClose
        /\ CallerSendsOnClosed
        /\ ~LoopSendsOnClosed
        /\ pc["run"] # "mdone")
       => panicked' = panicked]_vars

\* C34: no accepted item is stranded: once run and cleanup have both
\* returned, so that no goroutine is left to receive from dataChan, every
\* item a Put has enqueued (Put returned nil) has been passed to
\* Container.Put.
C34_NoItemStranded ==
    (/\ ClosedByClose
     /\ pc["run"] = "exit"
     /\ pc["cleanup"] = "done"
     /\ ~panicked)
    => \A k \in 1..nEnq : k \in PutItems

\* C35: no Flush(false) call is left without anybody to serve it: once run
\* has returned, so that no goroutine is left to receive from
\* flushSignalChan or to send the done signal, no caller is blocked in
\* Flush(false).
C35_SyncFlushReturns ==
    (/\ ClosedByClose
     /\ pc["run"] = "exit"
     /\ ~panicked)
    => \A c \in Callers : cpc[c] \notin {"flush_send_sync", "flush_wait"}

\* C36: under the synchronous flush policy, with no sink error, the
\* container holds fewer than FlushSize items whenever run waits in its
\* select.
C36_BelowSizeWhenWaiting ==
    (/\ SyncAutoFlush
     /\ NoSinkError
     /\ ~panicked
     /\ pc["run"] = "select")
    => Len(array) < FlushSize

\* C37: under the asynchronous policy no item reaches the sink twice: the
\* flushes run spawns for a full container and for the timer never hand the
\* same item to flushBatch more than once.
C37_OneHandOffPerFill ==
    ~SyncAutoFlush => \A k \in 1..nEnq : SinkCount(k) <= 1

====
